---------------------------- MODULE Spec2Model ----------------------------
(***************************************************************************)
(* A model of golang.org/x/debug's page-trace reader: the event codec, the *)
(* trace indexer (NewTrace, Clone, Slice), the merge parser (NewParser,    *)
(* Next, Rest) and the address-space simulator (Validate, Feed, State).    *)
(*                                                                         *)
(* A 64-bit trace word is a record of its bit fields,                      *)
(*   k = bits 0..2, f = bits 3..12, b = bits 13..40, h = bits 41..47,      *)
(*   d = bits 48..63,                                                      *)
(* so every accessor of the codec is the shift and mask the source does.   *)
(* Byte offsets are 8 * (word index); times are nanoseconds.               *)
(***************************************************************************)
EXTENDS Integers, Sequences, FiniteSets, TLC

VARIABLES
    stream,     \* the byte source r, as its sequence of 8-byte words
    trace,      \* what NewTrace(r) returned: NoTrace before the call
    heap,       \* the backing arrays of the block lists, by reference
    parsers,    \* the Parser objects, by parser id
    sim,        \* the Simulator
    hist,       \* what the simulator was fed: a count, the last event, its verdicts
    snaps,      \* the States a caller holds: a Clone, or what takeSnapshots returned
    tt,         \* the traceTree of the view command: its snapNodes, slots and locks
    reqs        \* the running getTile requests, by request id

vars == <<stream, trace, heap, parsers, sim, hist, snaps, tt, reqs>>

-----------------------------------------------------------------------------
(* Constants of the encoding.                                              *)

sync == 0
alloc == 1
free == 2
scav == 3
pid == 4
allocLarge == 5
freeLarge == 6
scavLarge == 7

pageSize == 8192
timeLostUnit == 128     \* 1 << timeLostBits

EventBad == 0
EventAllocate == 1
EventFree == 2
EventScavenge == 3

MaxInt64 == 2000000000  \* stands for math.MaxInt64: above every time of the model

-----------------------------------------------------------------------------
(* Event codec: accessors over a word.                                     *)

ZeroWord == [k |-> 0, f |-> 0, b |-> 0, h |-> 0, d |-> 0]

\* The unsigned value of a word whose bits 41..63 are clear.
WordVal(w) == w.k + 8 * w.f + 8192 * w.b

kind(w) == w.k

large(w) == (w.k \div 4) % 2 = 1

\* The kind with the "large" bit kept.
kindKeepLarge(w) == w.k

kindNoLarge(w) == w.k % 4

\* int32(int64(e) >> kindBits): bits 3..34 of the word, as a signed 32-bit value.
pidOf(w) ==
    LET lo == w.f + 1024 * (w.b % 2097152)
    IN  IF (w.b \div 2097152) % 2 = 1
        THEN (lo - 1073741824) - 1073741824
        ELSE lo

\* int64(e &^ kindMask) << (timeLostBits - kindBits), for words whose bits 41..63 are clear.
timestamp(w) == (w.f + 1024 * w.b) * timeLostUnit

\* int64(e >> ((64 - timeDeltaBits) - timeLostBits)): bits 41..63 of the word.
timestampDelta(w) == w.h + timeLostUnit * w.d

\* uint64(e) &^ (pageSize - 1) & ((1 << heapAddrBits) - 1): bits 13..47, in place.
basePages(w) == w.b + 268435456 * w.h

base(w) == basePages(w) * pageSize

npagesSmall(w) == w.f

pidIndex(p) == p + 1

pidFromIndex(pidx) == pidx - 1

-----------------------------------------------------------------------------
(* Trace indexer.                                                          *)

NoTrace == [status |-> "none"]

interval(s, e, st, et) == [start |-> s, end |-> e, startTime |-> st, endTime |-> et]

\* The state of NewTrace's scan before its first word.  cur = 0 is the interval
\* allocated by new(interval), which no block list holds.
ScanInit ==
    [ expectNpagesTrailer |-> FALSE, wantTime |-> FALSE,
      startTime |-> 0, endTime |-> 0, syncTime |-> 0,
      minAddr |-> 0, maxAddr |-> 0, npagesTrailerBaseAddr |-> 0,
      cur |-> [i |-> 0, n |-> 0], blocks |-> <<>>, status |-> "ok" ]

\* A write through the pointer cur.
CurWrite(st, fld, v) ==
    IF st.cur.i = 0 THEN st.blocks
    ELSE [st.blocks EXCEPT ![st.cur.i][st.cur.n][fld] = v]

\* append(t.blocks, make([][]interval, np-len(t.blocks))...)
GrowBlocks(blocks, np) ==
    IF Len(blocks) < np
    THEN blocks \o [x \in 1..(np - Len(blocks)) |-> <<>>]
    ELSE blocks

\* The body of NewTrace's inner loop for the word w at byte offset off.
ScanWord(st, w, off) ==
    IF st.expectNpagesTrailer
    THEN LET max == st.npagesTrailerBaseAddr + WordVal(w) * pageSize
         IN  [st EXCEPT !.maxAddr = IF st.maxAddr = 0 \/ max > st.maxAddr THEN max ELSE @,
                        !.expectNpagesTrailer = FALSE]
    ELSE
    LET isMem == kind(w) # pid /\ kind(w) # sync
        \* var curTime int64 is declared anew for every word; a pid word assigns it nothing
        curTime == IF kind(w) = pid THEN 0
                   ELSE IF kind(w) = sync THEN timestamp(w)
                   ELSE st.syncTime + timestampDelta(w)
        min == base(w)
        max == min + npagesSmall(w) * pageSize
        st1 == IF kind(w) = pid THEN st
               ELSE [st EXCEPT
                   !.syncTime = IF kind(w) = sync THEN timestamp(w) ELSE @,
                   !.expectNpagesTrailer = isMem /\ large(w),
                   !.minAddr = IF isMem /\ (st.minAddr = 0 \/ min < st.minAddr) THEN min ELSE @,
                   !.npagesTrailerBaseAddr = IF isMem /\ large(w) THEN min ELSE @,
                   !.maxAddr = IF isMem /\ ~large(w) /\ (st.maxAddr = 0 \/ max > st.maxAddr)
                               THEN max ELSE @,
                   !.endTime = IF curTime > st.endTime THEN curTime ELSE @]
    IN  IF st1.wantTime
        THEN IF kind(w) # sync
             THEN [st1 EXCEPT !.status = "malformed"]
             ELSE LET t == timestamp(w)
                  IN  [st1 EXCEPT
                          !.startTime = IF st1.startTime = 0 \/ t < st1.startTime THEN t ELSE @,
                          !.blocks = CurWrite(st1, "startTime", t),
                          !.wantTime = FALSE]
        ELSE IF kind(w) # pid
        THEN st1
        ELSE LET closed == CurWrite([st1 EXCEPT !.blocks = CurWrite(st1, "end", off)],
                                    "endTime", curTime)
                 idx == pidIndex(pidOf(w))
             IN  IF idx < 0
                 THEN [st1 EXCEPT !.status = "panic"]
                 ELSE LET grown == GrowBlocks(closed, idx + 1)
                          added == [grown EXCEPT ![idx + 1] = Append(@, interval(off, 0, 0, 0))]
                      IN  [st1 EXCEPT !.blocks = added,
                                      !.cur = [i |-> idx + 1, n |-> Len(added[idx + 1])],
                                      !.wantTime = TRUE]

RECURSIVE ScanFrom(_, _, _)
ScanFrom(st, words, j) ==
    IF j > Len(words) \/ st.status # "ok" THEN st
    ELSE ScanFrom(ScanWord(st, words[j], 8 * (j - 1)), words, j + 1)

\* NewTrace(r): the scan, then the closing of the open interval and the
\* extents.  The block lists are returned beside the Trace; the caller stores
\* them in the heap.
NewTrace(words) ==
    LET st == ScanFrom(ScanInit, words, 1)
    IN  IF st.status # "ok"
        THEN [status |-> st.status]
        ELSE [status |-> "ok",
              blocks |-> CurWrite(st, "end", 8 * Len(words)),
              minTraceTime |-> st.startTime,
              startTime |-> st.startTime,
              endTime |-> st.endTime,
              minAddr |-> st.minAddr,
              maxAddr |-> st.maxAddr]

\* A Trace object: the block lists are reached through the reference blocks
\* into the heap, the other fields are held by value.
MkTrace(ref, r) ==
    [blocks |-> ref, minTraceTime |-> r.minTraceTime, startTime |-> r.startTime,
     endTime |-> r.endTime, minAddr |-> r.minAddr, maxAddr |-> r.maxAddr]

Duration(t) == t.endTime - t.startTime

TimeStart(t) == t.startTime - t.minTraceTime

TimeEnd(t) == t.endTime - t.minTraceTime

\* A copy that shares the block lists of the original.
CloneShared(h, t, ref) ==
    [h |-> h,
     t |-> [blocks |-> t.blocks, minTraceTime |-> t.minTraceTime,
            startTime |-> t.startTime, endTime |-> t.endTime,
            minAddr |-> 0, maxAddr |-> 0]]

\* Trace.Clone: new(Trace), the three times copied, the block lists copied
\* into fresh arrays, which the allocator places at ref; minAddr and maxAddr
\* are left at their zero values.
Clone(h, t, ref) ==
    [h |-> [h EXCEPT ![ref] = h[t.blocks]],
     t |-> [blocks |-> ref, minTraceTime |-> t.minTraceTime,
            startTime |-> t.startTime, endTime |-> t.endTime,
            minAddr |-> 0, maxAddr |-> 0]]

\* The intervals of one processor that Slice keeps.
RECURSIVE KeepIntervals(_, _, _)
KeepIntervals(ivs, start, end) ==
    IF ivs = <<>> THEN <<>>
    ELSE LET iv == Head(ivs)
             rest == KeepIntervals(Tail(ivs), start, end)
         IN  IF iv.endTime < start \/ iv.startTime > end THEN rest ELSE <<iv>> \o rest

\* Trace.Slice(s, e); the allocator places the new block lists at ref.
Slice(h, t, s, e, ref) ==
    LET end0 == t.minTraceTime + e
        start0 == t.minTraceTime + s
        end == IF end0 > t.endTime THEN t.endTime ELSE end0
        start == IF start0 < t.startTime THEN t.startTime ELSE start0
        n == Len(h[t.blocks])
        t2 == [blocks |-> ref, minTraceTime |-> t.minTraceTime,
               startTime |-> t.minTraceTime, endTime |-> t.minTraceTime,
               minAddr |-> t.minAddr, maxAddr |-> t.maxAddr]
    IN  IF end <= start
        THEN [h |-> [h EXCEPT ![ref] = [i \in 1..n |-> <<>>]], t |-> t2]
        ELSE [h |-> [h EXCEPT ![ref] = [i \in 1..n |-> KeepIntervals(h[t.blocks][i], start, end)]],
              t |-> [t2 EXCEPT !.startTime = start, !.endTime = end]]

-----------------------------------------------------------------------------
(* Merge parser.  Processor index i of the model is pidx + 1 of the source. *)

NoEvent == [hdr |-> ZeroWord, npages |-> 0]

\* NewParser(t): the parser holds t.Clone().
ParserOver(c) == [h |-> c.h, p |-> [trace |-> c.t, clocks |-> <<>>, events |-> <<>>]]

NewParser(h, t, ref) == ParserOver(Clone(h, t, ref))

\* Parser.read8(pidx) on the block lists tbl of the parser's trace.
read8(tbl, i) ==
    IF Len(tbl[i]) = 0
    THEN [tbl |-> tbl, u |-> ZeroWord, err |-> FALSE]
    ELSE LET iv == tbl[i][1]
         IN  IF iv.start \div 8 >= Len(stream)
             THEN [tbl |-> tbl, u |-> ZeroWord, err |-> TRUE]
             ELSE LET iv2 == [iv EXCEPT !.start = @ + 8]
                  IN  [tbl |-> IF iv2.start = iv2.end
                               THEN [tbl EXCEPT ![i] = Tail(@)]
                               ELSE [tbl EXCEPT ![i][1] = iv2],
                       u |-> stream[iv.start \div 8 + 1],
                       err |-> FALSE]

\* Parser.refreshEvent(pidx): refreshEvent reads a word, refreshWord is the
\* body of its loop on the word read, refreshLarge the read of the trailer.
refreshLarge(clocks, u, r2) ==
    [tbl |-> r2.tbl, clocks |-> clocks,
     e |-> [hdr |-> u, npages |-> WordVal(r2.u)], err |-> r2.err]

RECURSIVE refreshEvent(_, _, _)
refreshWord(clocks, i, r) ==
    IF r.err THEN [tbl |-> r.tbl, clocks |-> clocks, e |-> NoEvent, err |-> TRUE]
    ELSE IF r.u = ZeroWord
    THEN [tbl |-> r.tbl, clocks |-> clocks, e |-> NoEvent, err |-> FALSE]
    ELSE IF kind(r.u) = sync
    THEN refreshEvent(r.tbl, [clocks EXCEPT ![i] = timestamp(r.u)], i)
    ELSE IF kind(r.u) = pid
    THEN IF pidIndex(pidOf(r.u)) # i - 1
         THEN [tbl |-> r.tbl, clocks |-> clocks,
               e |-> [hdr |-> r.u, npages |-> 0], err |-> TRUE]
         ELSE refreshEvent(r.tbl, clocks, i)
    ELSE IF large(r.u)
    THEN refreshLarge(clocks, r.u, read8(r.tbl, i))
    ELSE [tbl |-> r.tbl, clocks |-> clocks,
          e |-> [hdr |-> r.u, npages |-> npagesSmall(r.u)], err |-> FALSE]

refreshEvent(tbl, clocks, i) == refreshWord(clocks, i, read8(tbl, i))

\* event.makeEvent.
makeEvent(e, p, ts, startTimestamp) ==
    [Kind |-> kindNoLarge(e.hdr), P |-> p, Time |-> ts - startTimestamp,
     Base |-> base(e.hdr), Size |-> pageSize * e.npages]

\* The initialisation at the top of Next: one refreshEvent per processor, in
\* index order, stopping at the first error.
RECURSIVE InitFrom(_, _, _, _)
InitStore(events, i, r) ==
    IF r.err
    THEN [tbl |-> r.tbl, clocks |-> r.clocks, events |-> [events EXCEPT ![i] = r.e],
          err |-> TRUE]
    ELSE InitFrom(r.tbl, r.clocks, [events EXCEPT ![i] = r.e], i + 1)

InitFrom(tbl, clocks, events, i) ==
    IF i > Len(tbl) THEN [tbl |-> tbl, clocks |-> clocks, events |-> events, err |-> FALSE]
    ELSE InitStore(events, i, refreshEvent(tbl, clocks, i))

\* A selection loop that takes the first pending event it meets.
RECURSIVE PickFirstFrom(_, _, _, _)
PickFirstFrom(clocks, events, i, best) ==
    IF i > Len(events) THEN best
    ELSE IF events[i].hdr = ZeroWord \/ best.ts # MaxInt64
    THEN PickFirstFrom(clocks, events, i + 1, best)
    ELSE PickFirstFrom(clocks, events, i + 1,
             [ts |-> clocks[i] + timestampDelta(events[i].hdr), i |-> i, e |-> events[i]])

\* The selection loop of Next: the pending event of least timestamp, the first
\* such in index order.
RECURSIVE PickFrom(_, _, _, _)
PickFrom(clocks, events, i, best) ==
    IF i > Len(events) THEN best
    ELSE IF events[i].hdr = ZeroWord
    THEN PickFrom(clocks, events, i + 1, best)
    ELSE LET ts == clocks[i] + timestampDelta(events[i].hdr)
         IN  IF best.ts > ts
             THEN PickFrom(clocks, events, i + 1, [ts |-> ts, i |-> i, e |-> events[i]])
             ELSE PickFrom(clocks, events, i + 1, best)

NoPick == [ts |-> MaxInt64, i |-> 1, e |-> NoEvent]

MkParser(t, clocks, events) == [trace |-> t, clocks |-> clocks, events |-> events]

\* Parser.Next on the parser p whose block lists are tbl.  res is "event",
\* "eof" (io.EOF) or "err".  Next is the initialisation, NextPick the selection
\* loop, NextEmit the making of the event and the test against the end of the
\* trace, NextDone the refresh of the emitting processor and the test against
\* the start of the trace.
RECURSIVE Next(_, _)
NextDone(t, events, i, e, r) ==
    IF r.err
    THEN [tbl |-> r.tbl, p |-> MkParser(t, r.clocks, [events EXCEPT ![i] = r.e]),
          res |-> "err"]
    ELSE IF e.Time < TimeStart(t)
    THEN Next(r.tbl, MkParser(t, r.clocks, [events EXCEPT ![i] = r.e]))
    ELSE [tbl |-> r.tbl, p |-> MkParser(t, r.clocks, [events EXCEPT ![i] = r.e]),
          res |-> "event", e |-> e]

NextEmit(t, ini, pick, e) ==
    IF e.Time > TimeEnd(t)
    THEN [tbl |-> ini.tbl, p |-> MkParser(t, ini.clocks, ini.events), res |-> "eof"]
    ELSE NextDone(t, ini.events, pick.i, e, refreshEvent(ini.tbl, ini.clocks, pick.i))

NextPick(t, ini, pick) ==
    IF pick.ts = MaxInt64
    THEN [tbl |-> ini.tbl, p |-> MkParser(t, ini.clocks, ini.events), res |-> "eof"]
    ELSE NextEmit(t, ini, pick,
                  makeEvent(pick.e, pidFromIndex(pick.i - 1), pick.ts, t.minTraceTime))

NextInited(t, ini) ==
    IF ini.err
    THEN [tbl |-> ini.tbl, p |-> MkParser(t, ini.clocks, ini.events), res |-> "err"]
    ELSE NextPick(t, ini, PickFrom(ini.clocks, ini.events, 1, NoPick))

Next(tbl, p) ==
    NextInited(p.trace,
               IF Len(p.clocks) = 0
               THEN InitFrom(tbl, [i \in 1..Len(tbl) |-> 0],
                             [i \in 1..Len(tbl) |-> NoEvent], 1)
               ELSE [tbl |-> tbl, clocks |-> p.clocks, events |-> p.events, err |-> FALSE])

\* The least timestamp among the pending events, as Rest computes it.
RECURSIVE MinPending(_, _, _, _)
MinPending(clocks, events, i, m) ==
    IF i > Len(events) THEN m
    ELSE IF events[i].hdr = ZeroWord THEN MinPending(clocks, events, i + 1, m)
    ELSE LET ts == clocks[i] + timestampDelta(events[i].hdr)
         IN  MinPending(clocks, events, i + 1, IF m > ts THEN ts ELSE m)

\* Parser.Rest.
RestOf(c, p) ==
    [h |-> c.h,
     t |-> [c.t EXCEPT !.startTime = MinPending(p.clocks, p.events, 1, MaxInt64)]]

Rest(h, p, ref) == RestOf(Clone(h, p.trace, ref), p)

-----------------------------------------------------------------------------
(* Address-space simulator.  A bitmap is a sequence of bytes (0..255); byte *)
(* j of the source is element j + 1.                                       *)

Pow2(k) == CASE k = 0 -> 1 [] k = 1 -> 2 [] k = 2 -> 4 [] k = 3 -> 8
             [] k = 4 -> 16 [] k = 5 -> 32 [] k = 6 -> 64 [] k = 7 -> 128

\* byte & (1 << k) != 0
TestBit(byte, k) == (byte \div Pow2(k)) % 2 = 1

\* byte |= 1 << k
SetBit(byte, k) == IF TestBit(byte, k) THEN byte ELSE byte + Pow2(k)

\* byte &^= 1 << k
ClearBit(byte, k) == IF TestBit(byte, k) THEN byte - Pow2(k) ELSE byte

Zeros(n) == [j \in 1..n |-> 0]

alignUp(x, align) == ((x + align - 1) \div align) * align

alignDown(x, align) == (x \div align) * align

bitmapSize(minAddr, maxAddr) ==
    alignUp(alignUp(maxAddr - minAddr, pageSize) \div pageSize, 8) \div 8

\* The zero State: allocBits == nil.
EmptyState == [minAddr |-> 0, allocBits |-> <<>>, scavBits |-> <<>>, isNil |-> TRUE]

StateSize(s) == Len(s.allocBits) * 8 * pageSize

StateMinAddr(s) == s.minAddr

StateMaxAddr(s) == s.minAddr + StateSize(s)

IsAllocated(s, addr) ==
    IF addr < StateMinAddr(s) \/ addr >= StateMaxAddr(s) THEN FALSE
    ELSE LET off == (addr - s.minAddr) \div pageSize
         IN  TestBit(s.allocBits[off \div 8 + 1], off % 8)

IsScavenged(s, addr) ==
    IF addr < StateMinAddr(s) \/ addr >= StateMaxAddr(s) THEN TRUE
    ELSE LET off == (addr - s.minAddr) \div pageSize
         IN  TestBit(s.scavBits[off \div 8 + 1], off % 8)

\* The share of the page at i that the loops of Allocated and Scavenged add.
PageShare(i, addr, size) ==
    IF i < addr THEN alignUp(addr, pageSize) - i
    ELSE IF i + pageSize > addr + size THEN addr + size - i
    ELSE pageSize

RECURSIVE AllocatedFrom(_, _, _, _, _)
AllocatedFrom(s, i, end, addr, size) ==
    IF i >= end THEN 0
    ELSE (IF IsAllocated(s, i) THEN PageShare(i, addr, size) ELSE 0)
         + AllocatedFrom(s, i + pageSize, end, addr, size)

Allocated(s, addr, size) ==
    LET start0 == alignDown(addr, pageSize)
        start == IF start0 < StateMinAddr(s) THEN StateMinAddr(s) ELSE start0
        end0 == alignUp(addr + size, pageSize)
        end == IF end0 > StateMaxAddr(s) THEN StateMaxAddr(s) ELSE end0
    IN  AllocatedFrom(s, start, end, addr, size)

RECURSIVE ScavengedFrom(_, _, _, _, _)
ScavengedFrom(s, i, end, addr, size) ==
    IF i >= end THEN 0
    ELSE (IF IsScavenged(s, i) THEN PageShare(i, addr, size) ELSE 0)
         + ScavengedFrom(s, i + pageSize, end, addr, size)

Scavenged(s, addr, size) ==
    LET start0 == alignDown(addr, pageSize)
        start == IF start0 < StateMinAddr(s) THEN StateMinAddr(s) ELSE start0
        end0 == alignUp(addr + size, pageSize)
        end == IF end0 > StateMaxAddr(s) THEN StateMaxAddr(s) ELSE end0
    IN  ScavengedFrom(s, start, end, addr, size)

\* State.Clone: the fields copied, the bitmaps copied into arrays obtained
\* from make, which are not nil even when they are empty.
StateClone(s) ==
    [minAddr |-> s.minAddr, allocBits |-> s.allocBits, scavBits |-> s.scavBits,
     isNil |-> FALSE]

\* The growth of the bitmaps at the head of State.update.
Grow(s, e) ==
    LET minAddr == e.Base
        maxAddr == e.Base + e.Size
    IN  IF s.isNil
        THEN [minAddr |-> minAddr,
              allocBits |-> Zeros(bitmapSize(minAddr, maxAddr)),
              scavBits |-> Zeros(bitmapSize(minAddr, maxAddr)),
              isNil |-> FALSE]
        ELSE
        LET s1 == IF maxAddr > StateMaxAddr(s)
                  THEN LET newSize == bitmapSize(StateMinAddr(s), maxAddr)
                       IN  [s EXCEPT
                             !.allocBits = IF Len(@) < newSize
                                           THEN @ \o Zeros(newSize - Len(@)) ELSE @,
                             !.scavBits = IF Len(@) < newSize
                                          THEN @ \o Zeros(newSize - Len(@)) ELSE @]
                  ELSE s
        IN  IF minAddr < StateMinAddr(s1)
            THEN LET s2 == [s1 EXCEPT !.minAddr = minAddr]
                     \* MaxAddr is read after minAddr was lowered
                     newSize == bitmapSize(StateMinAddr(s2), StateMaxAddr(s2))
                 IN  [s2 EXCEPT
                       !.allocBits = IF Len(@) < newSize
                                     THEN Zeros(newSize - Len(@)) \o @ ELSE @,
                       !.scavBits = IF Len(@) < newSize
                                    THEN Zeros(newSize - Len(@)) \o @ ELSE @]
            ELSE s1

\* The loop of State.update over the page offsets i .. hi - 1.  An index past
\* the end of a bitmap is a run-time panic: ok becomes FALSE and the loop stops.
RECURSIVE UpdateBits(_, _, _, _)
UpdateBits(s, k, i, hi) ==
    IF i >= hi THEN [s |-> s, ok |-> TRUE]
    ELSE IF k \notin {EventAllocate, EventFree, EventScavenge} THEN [s |-> s, ok |-> TRUE]
    ELSE IF i \div 8 >= Len(s.allocBits) THEN [s |-> s, ok |-> FALSE]
    ELSE LET j == i \div 8 + 1
             b == i % 8
             s1 == CASE k = EventAllocate ->
                          [s EXCEPT !.allocBits[j] = SetBit(@, b),
                                    !.scavBits[j] = ClearBit(@, b)]
                     [] k = EventFree ->
                          [s EXCEPT !.allocBits[j] = ClearBit(@, b)]
                     [] k = EventScavenge ->
                          [s EXCEPT !.scavBits[j] = SetBit(@, b)]
         IN  UpdateBits(s1, k, i + 1, hi)

\* State.update.
update(s, e) ==
    LET g == Grow(s, e)
    IN  UpdateBits(g, e.Kind, (e.Base - g.minAddr) \div pageSize,
                   (e.Base + e.Size - g.minAddr) \div pageSize)

NewSimulator == [clock |-> 0, state |-> EmptyState, ok |-> TRUE]

\* A Validate without the case for EventFree.
ValidateNoFree(sm, e) ==
    IF e.Kind = EventBad THEN "bad event"
    ELSE IF e.Base % pageSize # 0 THEN "base not aligned"
    ELSE IF e.Size % pageSize # 0 THEN "size not aligned"
    ELSE IF e.Time < sm.clock THEN "out-of-order"
    ELSE IF e.Kind = EventAllocate /\ Allocated(sm.state, e.Base, e.Size) # 0
    THEN "double allocation"
    ELSE "nil"

\* Simulator.Validate: "nil" or the error it returns.
Validate(sm, e) ==
    IF e.Kind = EventBad THEN "bad event"
    ELSE IF e.Base % pageSize # 0 THEN "base not aligned"
    ELSE IF e.Size % pageSize # 0 THEN "size not aligned"
    ELSE IF e.Time < sm.clock THEN "out-of-order"
    ELSE IF e.Kind = EventAllocate /\ Allocated(sm.state, e.Base, e.Size) # 0
    THEN "double allocation"
    ELSE IF e.Kind = EventFree /\ Allocated(sm.state, e.Base, e.Size) # e.Size
    THEN "double free"
    ELSE "nil"

\* Simulator.Feed.
Feed(sm, e) ==
    LET u == update(sm.state, e)
    IN  [clock |-> e.Time, state |-> u.s, ok |-> u.ok]

-----------------------------------------------------------------------------
(* The byte sources of the model.  A source is a run of processor blocks;  *)
(* a block is a pid word, what follows it, and a body of further words.    *)

MaxBlocks == 2

\* The encoder's side of the format: the words the runtime writes.
PidWord(p) ==
    IF p < 0
    THEN [k |-> pid, f |-> 1024 + p, b |-> 268435455, h |-> 127, d |-> 65535]
    ELSE [k |-> pid, f |-> p, b |-> 0, h |-> 0, d |-> 0]

SyncWord(units) == [k |-> sync, f |-> units, b |-> 0, h |-> 0, d |-> 0]

MemWord(kd, basePage, npages, delta) ==
    [k |-> kd, f |-> npages, b |-> basePage, h |-> 0, d |-> delta]

TrailerWord(npages) ==
    [k |-> npages % 8, f |-> (npages \div 8) % 1024, b |-> npages \div 8192, h |-> 0, d |-> 0]

Pids == {0, 1}

\* What follows a pid word in a block: nothing (a truncated or malformed
\* block), a memory event without a sync, a sync of 0 ns (the all-zero word),
\* or a sync of 128 or 256 ns and then memory events: small ones with delta 0
\* or 1, a large one with its trailer, padding.
Tails ==
    { <<>>,
      <<MemWord(alloc, 8, 2, 0)>>,
      <<SyncWord(0), MemWord(alloc, 8, 2, 0)>>,
      <<SyncWord(1)>>,
      <<SyncWord(1), MemWord(alloc, 8, 2, 0)>>,
      <<SyncWord(1), MemWord(alloc, 8, 2, 0), MemWord(scav, 9, 1, 1)>>,
      <<SyncWord(1), MemWord(allocLarge, 16, 0, 0), TrailerWord(12)>>,
      <<SyncWord(1), ZeroWord, MemWord(free, 8, 2, 1)>>,
      <<SyncWord(2), MemWord(alloc, 8, 2, 0)>>,
      <<SyncWord(2), MemWord(free, 8, 2, 1)>> }

BlockSet == {<<PidWord(p)>> \o tl : p \in Pids, tl \in Tails}

RECURSIVE StreamsOf(_)
StreamsOf(n) ==
    IF n = 0 THEN {<<>>}
    ELSE LET shorter == StreamsOf(n - 1)
         IN  shorter \cup {st \o bl : st \in shorter, bl \in BlockSet}

\* A longer source: a processor that syncs at 128 ns and again at 0 ns, and a
\* second processor that syncs at 256 ns, each sync followed by an allocation.
ResyncStreams ==
    { <<PidWord(0), SyncWord(1), MemWord(alloc, 8, 2, 0),
        PidWord(0), SyncWord(0), MemWord(alloc, 8, 2, 0),
        PidWord(1), SyncWord(2), MemWord(alloc, 8, 2, 0)>> }

Streams == StreamsOf(MaxBlocks) \cup ResyncStreams

-----------------------------------------------------------------------------
(* The state machine of the reader: NewTrace, then parsers over the trace. *)

ParserIds == {1, 2}

\* Addresses of block lists: 1 holds those of the trace NewTrace returned,
\* OwnRef(i) those of the trace parser i holds, TmpRef(i) those of the trace
\* parser i was created from when that is a Slice, a Clone or a Rest.
TraceRef == 1

OwnRef(i) == TraceRef + i

TmpRef(i) == TraceRef + Cardinality(ParserIds) + i

\* The address used by the parses that the properties below carry out.
ScratchRef == TmpRef(Cardinality(ParserIds)) + 1

Refs == TraceRef..ScratchRef

\* The parser of the print command, whose events are validated and fed.
PrintParser == 1

NoParser == [status |-> "none"]

NoHist == [n |-> 0, allValid |-> TRUE, last |-> "none"]

NoSnaps == [status |-> "none"]

NoTree == [status |-> "none"]

\* The goroutines that serve tile requests.
ReqIds == {1, 2}

NoReq == [pc |-> "idle", calls |-> 0]

Init ==
    /\ stream \in Streams
    /\ trace = NoTrace
    /\ heap = [r \in Refs |-> <<>>]
    /\ parsers = [i \in ParserIds |-> NoParser]
    /\ sim = NewSimulator
    /\ hist = NoHist
    /\ snaps = NoSnaps
    /\ tt = NoTree
    /\ reqs = [r \in ReqIds |-> NoReq]

\* t, err := pagetrace.NewTrace(f)
DoNewTrace ==
    /\ trace.status = "none"
    /\ LET r == NewTrace(stream)
       IN  IF r.status = "ok"
           THEN /\ trace' = [status |-> "ok", t |-> MkTrace(TraceRef, r)]
                /\ heap' = [heap EXCEPT ![TraceRef] = r.blocks]
           ELSE /\ trace' = [status |-> r.status]
                /\ heap' = heap
    /\ UNCHANGED <<stream, parsers, sim, hist, snaps, tt, reqs>>

\* The parser i is created over the trace tr; src says where tr came from.
Install(i, np, src) ==
    /\ heap' = np.h
    /\ parsers' = [parsers EXCEPT ![i] =
                     [status |-> "run", p |-> np.p, out |-> <<>>, src |-> src]]

\* parser := pagetrace.NewParser(t)
DoNewParser(i) ==
    /\ trace.status = "ok"
    /\ parsers[i].status = "none"
    /\ Install(i, NewParser(heap, trace.t, OwnRef(i)), [from |-> "trace"])
    /\ UNCHANGED <<stream, trace, sim, hist, snaps, tt, reqs>>

\* One call of Next on the parser i: the new heap and the new parser entry.
StepOf(i, ref, r) ==
    [h |-> [heap EXCEPT ![ref] = r.tbl],
     res |-> r.res,
     e |-> IF r.res = "event" THEN r.e ELSE "none",
     entry |-> [parsers[i] EXCEPT
                  !.p = r.p,
                  !.status = CASE r.res = "event" -> "run"
                               [] r.res = "eof" -> "eof"
                               [] r.res = "err" -> "err",
                  !.out = IF r.res = "event" THEN Append(@, r.e) ELSE @]]

Step(i) ==
    StepOf(i, parsers[i].p.trace.blocks,
           Next(heap[parsers[i].p.trace.blocks], parsers[i].p))

\* e, err := parser.Next(), by a caller other than the print command.
DoNext(i) ==
    /\ i # PrintParser
    /\ parsers[i].status = "run"
    /\ LET st == Step(i)
       IN  /\ heap' = st.h
           /\ parsers' = [parsers EXCEPT ![i] = st.entry]
    /\ UNCHANGED <<stream, trace, sim, hist, snaps, tt, reqs>>

\* One iteration of the loop of printCmd.Run: Next, Validate, Feed.
PrintStep ==
    /\ parsers[PrintParser].status = "run"
    /\ sim.ok
    /\ LET st == Step(PrintParser)
       IN  /\ heap' = st.h
           /\ parsers' = [parsers EXCEPT ![PrintParser] = st.entry]
           /\ IF st.res = "event"
              THEN /\ sim' = Feed(sim, st.e)
                   /\ hist' = [n |-> hist.n + 1,
                               allValid |-> hist.allValid /\ Validate(sim, st.e) = "nil",
                               last |-> st.e]
              ELSE UNCHANGED <<sim, hist>>
    /\ UNCHANGED <<stream, trace, snaps, tt, reqs>>

Next0 ==
    \/ DoNewTrace
    \/ \E i \in ParserIds : DoNewParser(i)
    \/ \E i \in ParserIds : DoNext(i)
    \/ PrintStep

Spec == Init /\ [][Next0]_vars

-----------------------------------------------------------------------------
(* Parsers over slices of the trace.                                       *)

MaxSlice == 2

\* The slice bounds tried: multiples of 128 ns relative to the start of the
\* trace and, for the end, the duration of the trace.
SliceTimes == {u * timeLostUnit : u \in 0..MaxSlice}

SliceEnds == IF trace.status = "ok" THEN SliceTimes \cup {Duration(trace.t)} ELSE {}

\* parser := pagetrace.NewParser(t.Slice(s, e))
DoSlice(i, s, e) ==
    /\ trace.status = "ok"
    /\ parsers[i].status = "none"
    /\ Install(i, NewParser(Slice(heap, trace.t, s, e, TmpRef(i)).h,
                            Slice(heap, trace.t, s, e, TmpRef(i)).t, OwnRef(i)),
               [from |-> "slice", s |-> s, e |-> e])
    /\ UNCHANGED <<stream, trace, sim, hist, snaps, tt, reqs>>

SliceNext ==
    \/ DoNewTrace
    \/ \E i \in ParserIds \ {PrintParser} : \E s \in SliceTimes : \E e \in SliceEnds :
           DoSlice(i, s, e)
    \/ \E i \in ParserIds : DoNext(i)

SliceSpec == Init /\ [][SliceNext]_vars

-----------------------------------------------------------------------------
(* A parser over the rest of another parser's trace.                       *)

\* parser j := pagetrace.NewParser(parser i .Rest()), after the Next calls
\* parser i has made so far.
DoRest(i, j) ==
    /\ parsers[i].status = "run"
    /\ parsers[j].status = "none"
    /\ Install(j, NewParser(Rest(heap, parsers[i].p, TmpRef(j)).h,
                            Rest(heap, parsers[i].p, TmpRef(j)).t, OwnRef(j)),
               [from |-> "rest", of |-> i, k |-> Len(parsers[i].out)])
    /\ UNCHANGED <<stream, trace, sim, hist, snaps, tt, reqs>>

RestNext ==
    \/ DoNewTrace
    \/ \E i \in ParserIds \ {PrintParser} : DoNewParser(i)
    \/ \E i \in ParserIds : DoNext(i)
    \/ \E i \in ParserIds \ {PrintParser} : DoRest(i, PrintParser)
    \/ PrintStep

RestSpec == Init /\ [][RestNext]_vars

-----------------------------------------------------------------------------
(* The simulator fed directly by a caller.                                 *)

MaxFeeds == 3

\* Events with page-aligned base and size, of every kind: regions above,
\* below, inside and across one another, and the empty region.
SimEvents ==
    [Kind : {EventBad, EventAllocate, EventFree, EventScavenge},
     P : {0},
     Time : {0, timeLostUnit},
     Base : {0, pageSize, 8 * pageSize},
     Size : {0, pageSize, 9 * pageSize}]

SimInit ==
    /\ stream = <<>>
    /\ trace = NoTrace
    /\ heap = [r \in Refs |-> <<>>]
    /\ parsers = [i \in ParserIds |-> NoParser]
    /\ sim = NewSimulator
    /\ hist = NoHist
    /\ snaps = NoSnaps
    /\ tt = NoTree
    /\ reqs = [r \in ReqIds |-> NoReq]

\* err := sim.Validate(e); sim.Feed(e)
SimFeed(e) ==
    /\ sim.ok
    /\ hist.n < MaxFeeds
    /\ sim' = Feed(sim, e)
    /\ hist' = [n |-> hist.n + 1,
                allValid |-> hist.allValid /\ Validate(sim, e) = "nil",
                last |-> e]
    /\ UNCHANGED <<stream, trace, heap, parsers, snaps, tt, reqs>>

SimNext == \E e \in SimEvents : SimFeed(e)

SimSpec == SimInit /\ [][SimNext]_vars

-----------------------------------------------------------------------------
(* The simulator fed and queried by a caller: Validate on events that are  *)
(* not fed, among them events whose base or size is not page-aligned.      *)

\* The regions of the events validated: a page, nine pages across the fed
\* regions, the empty region, and regions whose base or size is a page and a
\* half.
ValRegions ==
    { <<0, pageSize>>, <<0, 9 * pageSize>>, <<8 * pageSize, 0>>,
      <<pageSize + pageSize \div 2, pageSize>>, <<0, pageSize + pageSize \div 2>> }

\* Their time is 0: at the clock of a simulator that was fed events of time 0,
\* before it otherwise.
ValEvents ==
    { [Kind |-> k, P |-> 0, Time |-> 0, Base |-> r[1], Size |-> r[2]] :
        k \in {EventBad, EventAllocate, EventFree, EventScavenge},
        r \in ValRegions }

ValInit ==
    /\ stream = <<>>
    /\ trace = NoTrace
    /\ heap = [r \in Refs |-> <<>>]
    /\ parsers = [i \in ParserIds |-> NoParser]
    /\ sim = NewSimulator
    /\ hist = [NoHist EXCEPT !.last = [verdict |-> "none"]]
    /\ snaps = NoSnaps
    /\ tt = NoTree
    /\ reqs = [r \in ReqIds |-> NoReq]

\* err := sim.Validate(e), the event not being fed.
DoValidate(e) ==
    /\ sim.ok
    /\ hist' = [hist EXCEPT !.last = [verdict |-> Validate(sim, e), of |-> e]]
    /\ UNCHANGED <<stream, trace, heap, parsers, sim, snaps, tt, reqs>>

\* The events fed are those a parser can return: makeEvent gives no event of
\* kind Bad.
ValFeeds == {e \in SimEvents : e.Kind # EventBad}

ValNext ==
    \/ \E e \in ValFeeds : SimFeed(e)
    \/ \E e \in ValEvents : DoValidate(e)

ValSpec == ValInit /\ [][ValNext]_vars

-----------------------------------------------------------------------------
(* The simulator fed by a caller who then asks its State for the allocated *)
(* and scavenged bytes of a range that need not be page-aligned.           *)

\* The ranges asked about start and end on a page boundary or in the middle
\* of a page.
QueryAddrs == {0, pageSize \div 2, pageSize, pageSize + pageSize \div 2}

QuerySizes == {pageSize \div 2, pageSize, pageSize + pageSize \div 2, 9 * pageSize}

\* sim.Snapshot().Allocated(addr, size) and .Scavenged(addr, size)
DoQuery(addr, size) ==
    /\ sim.ok
    /\ hist' = [hist EXCEPT !.last = [verdict |-> "none", addr |-> addr, size |-> size,
                                      alloc |-> Allocated(sim.state, addr, size),
                                      scav |-> Scavenged(sim.state, addr, size)]]
    /\ UNCHANGED <<stream, trace, heap, parsers, sim, snaps, tt, reqs>>

QueryNext ==
    \/ \E e \in ValFeeds : SimFeed(e)
    \/ \E addr \in QueryAddrs : \E size \in QuerySizes : DoQuery(addr, size)

QuerySpec == ValInit /\ [][QueryNext]_vars

-----------------------------------------------------------------------------
(* A State cloned by a caller, and the same events then fed to the         *)
(* simulator and to the clone.                                             *)

\* c := sim.Snapshot().Clone()
DoClone ==
    /\ snaps.status = "none"
    /\ sim.ok
    /\ snaps' = [status |-> "clone", s |-> StateClone(sim.state)]
    /\ UNCHANGED <<stream, trace, heap, parsers, sim, hist, tt, reqs>>

\* Feeds before the clone is taken.
FeedBefore(e) ==
    /\ snaps.status = "none"
    /\ SimFeed(e)

\* sim.Feed(e) and, on a simulator holding the clone, Feed(e).
FeedBoth(e) ==
    /\ snaps.status = "clone"
    /\ sim.ok
    /\ hist.n < MaxFeeds
    /\ update(snaps.s, e).ok
    /\ sim' = Feed(sim, e)
    /\ snaps' = [snaps EXCEPT !.s = update(snaps.s, e).s]
    /\ hist' = [n |-> hist.n + 1,
                allValid |-> hist.allValid /\ Validate(sim, e) = "nil",
                last |-> e]
    /\ UNCHANGED <<stream, trace, heap, parsers, tt, reqs>>

CloneNext ==
    \/ \E e \in ValFeeds : FeedBefore(e)
    \/ DoClone
    \/ \E e \in ValFeeds : FeedBoth(e)

CloneSpec == SimInit /\ [][CloneNext]_vars

-----------------------------------------------------------------------------
(* The snapshot stripper of the image and view commands.  A *State is a    *)
(* record: isNull for the nil pointer, s the State it points to.           *)

NilPtr == [isNull |-> TRUE, s |-> EmptyState]

PtrTo(s) == [isNull |-> FALSE, s |-> s]

\* Simulator.SetState.
SetState(sm, state) == [sm EXCEPT !.state = StateClone(state)]

\* The inner loop of takeSnapshots: a snapshot is appended and lastSnapTime
\* advanced by a granule while now is more than a granule past it.  Every
\* pass appends a clone of the same state, so the loop is given by the number
\* of its passes.  With a granule that is not positive the loop does not
\* end: hang.
SnapPasses(now, lastSnapTime, timeGranule) ==
    IF now - lastSnapTime > timeGranule
    THEN ((now - lastSnapTime) - 1) \div timeGranule
    ELSE 0

SnapWhile(sn, sm, now, lastSnapTime, timeGranule) ==
    IF now - lastSnapTime > timeGranule /\ timeGranule <= 0
    THEN [snaps |-> sn, lastSnapTime |-> lastSnapTime, hang |-> TRUE]
    ELSE [snaps |-> sn \o [x \in 1..SnapPasses(now, lastSnapTime, timeGranule) |->
                              PtrTo(StateClone(sm.state))],
          lastSnapTime |-> lastSnapTime
                           + SnapPasses(now, lastSnapTime, timeGranule) * timeGranule,
          hang |-> FALSE]

\* The closing loop of takeSnapshots: last is appended while
\* TimeStart + len(snaps) * timeGranule is before the end of the trace.
FillPasses(n, t, timeGranule) ==
    IF TimeStart(t) + n * timeGranule < TimeEnd(t)
    THEN (((TimeEnd(t) - TimeStart(t)) + timeGranule - 1) \div timeGranule) - n
    ELSE 0

FillWhile(sn, last, t, timeGranule) ==
    IF TimeStart(t) + Len(sn) * timeGranule < TimeEnd(t) /\ timeGranule <= 0
    THEN [status |-> "hang"]
    ELSE [status |-> "ok",
          snaps |-> sn \o [x \in 1..FillPasses(Len(sn), t, timeGranule) |-> last],
          last |-> last]

\* The outer loop of takeSnapshots: w is what the inner loop left, r what
\* parser.Next() returned.
RECURSIVE TakeLoop(_, _, _, _, _, _)
TakeStep(sm, t, timeGranule, w, r) ==
    IF r.res = "eof" THEN FillWhile(w.snaps, PtrTo(StateClone(sm.state)), t, timeGranule)
    ELSE IF r.res = "err" THEN [status |-> "err"]
    ELSE IF ~Feed(sm, r.e).ok THEN [status |-> "panic"]
    ELSE TakeLoop(r.tbl, r.p, Feed(sm, r.e), t, timeGranule,
                  SnapWhile(w.snaps, Feed(sm, r.e), r.e.Time, w.lastSnapTime, timeGranule))

TakeLoop(tbl, p, sm, t, timeGranule, w) ==
    IF w.hang THEN [status |-> "hang"]
    ELSE TakeStep(sm, t, timeGranule, w, Next(tbl, p))

TakeFrom(np, sm, t, timeGranule, start) ==
    TakeLoop(np.h[np.p.trace.blocks], np.p, sm, t, timeGranule,
             SnapWhile(<<start>>, sm, TimeStart(t), TimeStart(t), timeGranule))

\* takeSnapshots(t, timeGranule, start), t being in the heap h.
takeSnapshots(h, t, timeGranule, start) ==
    TakeFrom(NewParser(h, t, ScratchRef),
             IF start.isNull THEN NewSimulator ELSE SetState(NewSimulator, start.s),
             t, timeGranule, start)

\* The granules tried: half, once and twice the 128 ns unit of the sync times.
SnapGranules == {timeLostUnit \div 2, timeLostUnit, 2 * timeLostUnit}

\* snaps, _, err := takeSnapshots(t, *timeGranule, nil)
DoSnapshots(g) ==
    /\ trace.status = "ok"
    /\ snaps.status = "none"
    /\ snaps' = [status |-> "taken", g |-> g, r |-> takeSnapshots(heap, trace.t, g, NilPtr)]
    /\ UNCHANGED <<stream, trace, heap, parsers, sim, hist, tt, reqs>>

SnapNext ==
    \/ DoNewTrace
    \/ \E g \in SnapGranules : DoSnapshots(g)

SnapSpec == Init /\ [][SnapNext]_vars

-----------------------------------------------------------------------------
(* The tile server of the view command: the tree of snapshot nodes that    *)
(* makeTraceTree builds and getTile extends on demand.  Nodes live in the  *)
(* sequence tt.nodes; a *snapNode is an index into it, 0 the nil pointer.  *)
(* A sync.Mutex is 0 when free and the id of the goroutine that holds it.  *)

minDuration == 8192

minMemChunk == 8192

tileSize == 256

magFactor == 2

minTileDuration == minDuration * tileSize

minTileMemChunk == minMemChunk * tileSize

\* makeImage(snaps, minAddr, maxAddr, memChunk).  The image is held as the
\* arguments it is drawn from, maxAddr aligned up as the function does;
\* Occupancy is the quantity the function turns into the pixel (x, y).
makeImage(sn, minAddr, maxAddr, memChunk) ==
    [snaps |-> sn, minAddr |-> minAddr,
     maxAddr |-> minAddr + (((maxAddr - minAddr) + memChunk - 1) \div memChunk) * memChunk,
     memChunk |-> memChunk]

ImageWidth(img) == Len(img.snaps)

ImageHeight(img) == (img.maxAddr - img.minAddr) \div img.memChunk

\* snap.Allocated(i, memChunk) for the row y of the column x; 0 for a nil
\* snapshot.  The pixel is black exactly when this is 0.
Occupancy(img, x, y) ==
    IF img.snaps[x + 1].isNull THEN 0
    ELSE Allocated(img.snaps[x + 1].s,
                   img.minAddr + ((ImageHeight(img) - 1) - y) * img.memChunk,
                   img.memChunk)

\* copy(n.snaps[:], snaps)
CopySnaps(sn) == [x \in 1..tileSize |-> IF x <= Len(sn) THEN sn[x] ELSE NilPtr]

\* The snapNode that snapNodeRoot allocates.
NewNode(t, sn) ==
    [minTime |-> TimeStart(t), maxTime |-> TimeEnd(t), snaps |-> CopySnaps(sn),
     children |-> [c \in 1..magFactor |-> 0],
     childLocks |-> [c \in 1..magFactor |-> 0]]

SnapNodeOf(t, r) ==
    IF r.status # "ok" THEN [status |-> r.status]
    ELSE [status |-> "ok", node |-> NewNode(t, r.snaps), last |-> r.last]

\* snapNodeRoot(t, s), t being in the heap h.
snapNodeRoot(h, t, s) ==
    SnapNodeOf(t, takeSnapshots(h, t, Duration(t) \div tileSize, s))

\* snapNodeRoot(t.Slice(start, end), s)
SliceRoot(sl, s) == snapNodeRoot(sl.h, sl.t, s)

\* The loop of makeTraceTree that sizes the top tiles.
RECURSIVE GrowTiles(_, _, _, _, _)
GrowTiles(maxTileDuration, maxTileMemChunk, height, maxDur, memSize) ==
    IF maxTileDuration < maxDur /\ maxTileMemChunk < memSize
    THEN GrowTiles(maxTileDuration * magFactor, maxTileMemChunk * magFactor,
                   height + 1, maxDur, memSize)
    ELSE [maxTileDuration |-> maxTileDuration, maxTileMemChunk |-> maxTileMemChunk,
          height |-> height]

\* The loop of makeTraceTree over the roots; i counts from 0.
RECURSIVE MakeRoots(_, _, _, _, _, _, _)
MakeRootsStep(h, t, i, n, maxTileDuration, nodes, r) ==
    IF r.status # "ok" THEN [status |-> r.status]
    ELSE MakeRoots(h, t, i + 1, n, maxTileDuration, r.last, Append(nodes, r.node))

MakeRoots(h, t, i, n, maxTileDuration, last, nodes) ==
    IF i >= n THEN [status |-> "ok", nodes |-> nodes]
    ELSE MakeRootsStep(h, t, i, n, maxTileDuration, nodes,
                       SliceRoot(Slice(h, t, i * maxTileDuration,
                                       (i + 1) * maxTileDuration, ScratchRef), last))

TreeOf(t, g, maxDur, minAddr, maxAddr, roots) ==
    IF roots.status # "ok" THEN [status |-> roots.status]
    ELSE [status |-> "ok", t |-> t,
          span |-> [minTime |-> 0, maxTime |-> maxDur, minAddr |-> minAddr, maxAddr |-> maxAddr],
          trees |-> [i \in 1..Len(roots.nodes) |-> i],
          height |-> g.height,
          maxTileDuration |-> g.maxTileDuration,
          maxTileMemChunk |-> g.maxTileMemChunk,
          nodes |-> roots.nodes]

TreeSized(h, t, g, maxDur0, minAddr, maxAddr0) ==
    TreeOf(t, g, alignUp(maxDur0, g.maxTileDuration),
           minAddr, minAddr + alignUp(maxAddr0 - minAddr, g.maxTileMemChunk),
           MakeRoots(h, t, 0, alignUp(maxDur0, g.maxTileDuration) \div g.maxTileDuration,
                     g.maxTileDuration, NilPtr, <<>>))

TreeSpanned(h, t, maxDur, minAddr, maxAddr) ==
    TreeSized(h, t,
              GrowTiles(minTileDuration, minTileMemChunk, 1, maxDur, maxAddr - minAddr),
              maxDur, minAddr, maxAddr)

\* makeTraceTree(t), t being in the heap h.
makeTraceTree(h, t) ==
    LET maxDur == IF Duration(t) < minTileDuration THEN minTileDuration ELSE Duration(t)
        minAddr == alignDown(t.minAddr, minTileMemChunk)
        maxAddr0 == alignUp(t.maxAddr, minTileMemChunk)
        maxAddr == IF maxAddr0 - minAddr < minTileMemChunk
                   THEN minAddr + minTileMemChunk ELSE maxAddr0
    IN  TreeSpanned(h, t, maxDur, minAddr, maxAddr)

\* The traces served: one allocation and nothing else; the same beside a
\* processor whose sync is 0 ns; the same beside a processor whose only word
\* is a sync 4194304 ns later; two allocations 4194304 ns and 2 MiB apart.
SyncAt(units) == [k |-> sync, f |-> units % 1024, b |-> units \div 1024, h |-> 0, d |-> 0]

ViewStreams ==
    { <<PidWord(0), SyncAt(1), MemWord(alloc, 8, 2, 0)>>,
      <<PidWord(0), SyncAt(2), MemWord(alloc, 8, 2, 0), PidWord(1), SyncAt(0)>>,
      <<PidWord(0), SyncAt(1), MemWord(alloc, 8, 2, 0), PidWord(1), SyncAt(32769)>>,
      <<PidWord(0), SyncAt(1), MemWord(alloc, 8, 2, 0),
        PidWord(1), SyncAt(32769), MemWord(alloc, 300, 2, 0)>> }

\* The tiles asked for.
ViewTimes == {0, 1048576, 3145728}

ViewAddrs == {0, 2097152}

ViewDepths == 0..2

\* The calls of getTile one goroutine makes.
MaxCalls == 1

ViewInit ==
    /\ stream \in ViewStreams
    /\ trace = NoTrace
    /\ heap = [r \in Refs |-> <<>>]
    /\ parsers = [i \in ParserIds |-> NoParser]
    /\ sim = NewSimulator
    /\ hist = NoHist
    /\ snaps = NoSnaps
    /\ tt = NoTree
    /\ reqs = [r \in ReqIds |-> NoReq]

\* tt, err := makeTraceTree(t)
DoMakeTree ==
    /\ trace.status = "ok"
    /\ tt.status = "none"
    /\ tt' = makeTraceTree(heap, trace.t)
    /\ UNCHANGED <<stream, trace, heap, parsers, sim, hist, snaps, reqs>>

NoResult == [kind |-> "none"]

NilResult == [kind |-> "nil"]

\* getTile up to the loop: the range checks and the choice of the root.
EnterTile(tileTime, tileAddr, d, calls) ==
    LET s0 == tt.span
        minAddr == s0.minAddr + ((tileAddr - s0.minAddr) \div tt.maxTileMemChunk) * tt.maxTileMemChunk
        minTime == s0.minTime + ((tileTime - s0.minTime) \div tt.maxTileDuration) * tt.maxTileDuration
    IN  IF tileTime < s0.minTime \/ tileTime >= s0.maxTime
           \/ tileAddr < s0.minAddr \/ tileAddr >= s0.maxAddr
        THEN [pc |-> "done", calls |-> calls, res |-> NilResult]
        ELSE [pc |-> "loop", calls |-> calls, res |-> NoResult,
              tileTime |-> tileTime, tileAddr |-> tileAddr, d |-> d,
              s |-> [minTime |-> minTime, maxTime |-> minTime + tt.maxTileDuration,
                     minAddr |-> minAddr, maxAddr |-> minAddr + tt.maxTileMemChunk],
              node |-> tt.trees[((minTime - tt.span.minTime) \div tt.maxTileDuration) + 1],
              depth |-> 0, from |-> [node |-> 0, idx |-> 0],
              childIdx |-> 0, childSnapIdx |-> 0]

\* A goroutine r is handed a tile request.
Call(r, tileTime, tileAddr, d) ==
    /\ tt.status = "ok"
    /\ reqs[r].pc \in {"idle", "done"}
    /\ reqs[r].calls < MaxCalls
    /\ reqs' = [reqs EXCEPT ![r] = EnterTile(tileTime, tileAddr, d, reqs[r].calls + 1)]
    /\ UNCHANGED <<stream, trace, heap, parsers, sim, hist, snaps, tt>>

\* "Go one level deeper": the span of the child and its index.
Deeper(q, nextMemChunk, nextDuration, node) ==
    LET minAddr == q.s.minAddr + ((q.tileAddr - q.s.minAddr) \div nextMemChunk) * nextMemChunk
        minTime == q.s.minTime + ((q.tileTime - q.s.minTime) \div nextDuration) * nextDuration
        childIdx == (minTime - node.minTime) \div nextDuration
    IN  [q EXCEPT !.s = [minTime |-> minTime, maxTime |-> minTime + nextDuration,
                         minAddr |-> minAddr, maxAddr |-> minAddr + nextMemChunk],
                  !.childIdx = childIdx,
                  !.childSnapIdx = (childIdx * tileSize) \div magFactor,
                  !.pc = IF childIdx \in 0..(magFactor - 1) THEN "lock" ELSE "panic"]

\* The head of the loop of getTile, up to the Lock.
LoopOf(q) ==
    IF q.depth < tt.height
    THEN IF q.d = q.depth /\ q.s.minTime = q.tileTime /\ q.s.minAddr = q.tileAddr
         THEN [q EXCEPT !.pc = "done",
                        !.res = [kind |-> "image",
                                 img |-> makeImage(tt.nodes[q.node].snaps, q.s.minAddr, q.s.maxAddr,
                                                   (q.s.maxAddr - q.s.minAddr) \div tileSize)]]
         ELSE Deeper(q, (q.s.maxAddr - q.s.minAddr) \div magFactor,
                     (q.s.maxTime - q.s.minTime) \div magFactor, tt.nodes[q.node])
    ELSE [q EXCEPT !.pc = "done", !.res = NilResult]

Loop(r) ==
    /\ reqs[r].pc = "loop"
    /\ reqs' = [reqs EXCEPT ![r] = LoopOf(reqs[r])]
    /\ UNCHANGED <<stream, trace, heap, parsers, sim, hist, snaps, tt>>

\* The mutex of the slot the goroutine r is at.
LockOf(r) == tt.nodes[reqs[r].node].childLocks[reqs[r].childIdx + 1]

SetLock(r, v) == [tt EXCEPT !.nodes[reqs[r].node].childLocks[reqs[r].childIdx + 1] = v]

\* A Lock that does not wait for the holder.
LockNoWait(r) ==
    /\ reqs[r].pc = "lock"
    /\ tt' = SetLock(r, r)
    /\ reqs' = [reqs EXCEPT ![r].pc = "locked"]
    /\ UNCHANGED <<stream, trace, heap, parsers, sim, hist, snaps>>

\* node.childLocks[childIdx].Lock()
Lock(r) ==
    /\ reqs[r].pc = "lock"
    /\ LockOf(r) = 0
    /\ tt' = SetLock(r, r)
    /\ reqs' = [reqs EXCEPT ![r].pc = "locked"]
    /\ UNCHANGED <<stream, trace, heap, parsers, sim, hist, snaps>>

\* if node.children[childIdx] == nil
Check(r) ==
    /\ reqs[r].pc = "locked"
    /\ reqs' = [reqs EXCEPT ![r].pc =
                  IF tt.nodes[reqs[r].node].children[reqs[r].childIdx + 1] = 0
                  THEN "build" ELSE "unlock"]
    /\ UNCHANGED <<stream, trace, heap, parsers, sim, hist, snaps, tt>>

\* The slice a child is built from reads the file when it has an interval.
ReadsFile(sl) == \E i \in 1..Len(sl.h[sl.t.blocks]) : sl.h[sl.t.blocks][i] # <<>>

\* What snapNodeRoot returns for the child; a read of the file may fail.
ChildOf(sl, s, readFails) ==
    IF readFails /\ ReadsFile(sl) THEN [status |-> "err"] ELSE SliceRoot(sl, s)

ChildFor(q, readFails) ==
    ChildOf(Slice(heap, tt.t, q.s.minTime, q.s.maxTime, ScratchRef),
            tt.nodes[q.node].snaps[q.childSnapIdx + 1], readFails)

\* The construction with the error return leaving the mutex locked.
BuildKeepsLock(r, c) ==
    /\ reqs[r].pc = "build"
    /\ IF c.status = "ok"
       THEN /\ tt' = [tt EXCEPT !.nodes = Append(
                                   [@ EXCEPT ![reqs[r].node].children[reqs[r].childIdx + 1] = Len(tt.nodes) + 1],
                                   c.node)]
            /\ reqs' = [reqs EXCEPT ![r].pc = "unlock"]
       ELSE IF c.status = "err"
       THEN /\ tt' = tt
            /\ reqs' = [reqs EXCEPT ![r].pc = "done", ![r].res = [kind |-> "error"]]
       ELSE /\ tt' = tt
            /\ reqs' = [reqs EXCEPT ![r].pc = c.status]
    /\ UNCHANGED <<stream, trace, heap, parsers, sim, hist, snaps>>

\* The construction of the child, c being what snapNodeRoot returned: the
\* child is stored, or the mutex is unlocked and the error returned.  A
\* construction that panics or does not end leaves the goroutine there.
Build(r, c) ==
    /\ reqs[r].pc = "build"
    /\ IF c.status = "ok"
       THEN /\ tt' = [tt EXCEPT !.nodes = Append(
                                   [@ EXCEPT ![reqs[r].node].children[reqs[r].childIdx + 1] = Len(tt.nodes) + 1],
                                   c.node)]
            /\ reqs' = [reqs EXCEPT ![r].pc = "unlock"]
       ELSE IF c.status = "err"
       THEN /\ tt' = SetLock(r, 0)
            /\ reqs' = [reqs EXCEPT ![r].pc = "done", ![r].res = [kind |-> "error"]]
       ELSE /\ tt' = tt
            /\ reqs' = [reqs EXCEPT ![r].pc = c.status]
    /\ UNCHANGED <<stream, trace, heap, parsers, sim, hist, snaps>>

\* tmp := node.children[childIdx]; Unlock; node = tmp; depth++
Unlock(r) ==
    /\ reqs[r].pc = "unlock"
    /\ tt' = SetLock(r, 0)
    /\ reqs' = [reqs EXCEPT ![r].node = tt.nodes[reqs[r].node].children[reqs[r].childIdx + 1],
                            ![r].from = [node |-> reqs[r].node, idx |-> reqs[r].childIdx],
                            ![r].depth = @ + 1,
                            ![r].pc = "loop"]
    /\ UNCHANGED <<stream, trace, heap, parsers, sim, hist, snaps>>

ViewNext ==
    \/ DoNewTrace
    \/ DoMakeTree
    \/ \E r \in ReqIds, tileTime \in ViewTimes, tileAddr \in ViewAddrs, d \in ViewDepths :
          Call(r, tileTime, tileAddr, d)
    \/ \E r \in ReqIds : Loop(r)
    \/ \E r \in ReqIds : Lock(r)
    \/ \E r \in ReqIds : Check(r)
    \/ \E r \in ReqIds, readFails \in BOOLEAN : Build(r, ChildFor(reqs[r], readFails))
    \/ \E r \in ReqIds : Unlock(r)

ViewSpec == ViewInit /\ [][ViewNext]_vars

-----------------------------------------------------------------------------
(* Headers of memory events at addresses of 2^41 and above.                *)

\* The word the runtime writes for a small memory event whose base address
\* is (basePage + 2^28 * hi) pages: hi is the part of the address in the
\* bits 41..47 of the word.
HighWord(kd, basePage, hi, npages, delta) ==
    [k |-> kd, f |-> npages, b |-> basePage, h |-> hi, d |-> delta]

\* Headers with a base below 2^41, at 2^41 and at 7 * 2^41, and with a delta
\* of 0, of 128 ns and of the largest value of the field.
HdrWords ==
    {HighWord(kd, bp, hi, 1, dl) : kd \in {alloc, free}, bp \in {0, 8},
                                   hi \in {0, 1, 7}, dl \in {0, 1, 65535}}

\* Two headers are decoded and compared.
HdrInit ==
    /\ stream \in {<<w1, w2>> : w1 \in HdrWords, w2 \in HdrWords}
    /\ trace = NoTrace
    /\ heap = [r \in Refs |-> <<>>]
    /\ parsers = [i \in ParserIds |-> NoParser]
    /\ sim = NewSimulator
    /\ hist = NoHist
    /\ snaps = NoSnaps
    /\ tt = NoTree
    /\ reqs = [r \in ReqIds |-> NoReq]

\* e.timestampDelta() and e.base() of each header, the base in pages.
DoDecode ==
    /\ hist.n = 0
    /\ hist' = [hist EXCEPT
                  !.n = 1,
                  !.last = [delta |-> [j \in 1..Len(stream) |-> timestampDelta(stream[j])],
                            page |-> [j \in 1..Len(stream) |-> basePages(stream[j])]]]
    /\ UNCHANGED <<stream, trace, heap, parsers, sim, snaps, tt, reqs>>

HdrNext == DoDecode

HdrSpec == HdrInit /\ [][HdrNext]_vars

-----------------------------------------------------------------------------
(* The tile server over traces that end shortly after a tile begins.       *)

\* The traces served: an allocation and a second processor's sync 128 ns
\* later (a duration of 128 ns); an allocation and a second processor's sync
\* 1048576 + 128 ns later, which is 128 ns into the second half of the root
\* tile.
ShortStreams ==
    { <<PidWord(0), SyncAt(1), MemWord(alloc, 8, 2, 0), PidWord(1), SyncAt(2)>>,
      <<PidWord(0), SyncAt(1), MemWord(alloc, 8, 2, 0), PidWord(1), SyncAt(8194)>> }

ShortInit ==
    /\ stream \in ShortStreams
    /\ trace = NoTrace
    /\ heap = [r \in Refs |-> <<>>]
    /\ parsers = [i \in ParserIds |-> NoParser]
    /\ sim = NewSimulator
    /\ hist = NoHist
    /\ snaps = NoSnaps
    /\ tt = NoTree
    /\ reqs = [r \in ReqIds |-> NoReq]

\* viewCmd.Run goes on to makeTraceTree after NewTrace, and the goroutine
\* of a request is scheduled until it returns: each step that is enabled
\* is taken in the end.
ShortFair ==
    /\ WF_vars(DoMakeTree)
    /\ \A r \in ReqIds :
          /\ WF_vars(Loop(r))
          /\ WF_vars(Lock(r))
          /\ WF_vars(Check(r))
          /\ WF_vars(\E readFails \in BOOLEAN : Build(r, ChildFor(reqs[r], readFails)))
          /\ WF_vars(Unlock(r))

ShortSpec == ShortInit /\ [][ViewNext]_vars /\ ShortFair

-----------------------------------------------------------------------------
(* The tile server over a trace of three levels of tiles.                  *)

\* The trace served: two allocations 5242880 ns and more than 4 MiB apart,
\* which gives a root tile of 8388608 ns and a tree of height 3; the last
\* quarter of the root tile lies after the end of the trace.
DeepStreams ==
    { <<PidWord(0), SyncAt(1), MemWord(alloc, 8, 2, 0),
        PidWord(1), SyncAt(40961), MemWord(alloc, 600, 2, 0)>> }

\* The tiles asked for: in the first and in the last quarter of the root
\* tile, at the depth of the leaves and one below.
DeepTimes == {0, 6291456, 7340032}

DeepAddrs == {0}

DeepDepths == {2, 3}

DeepInit ==
    /\ stream \in DeepStreams
    /\ trace = NoTrace
    /\ heap = [r \in Refs |-> <<>>]
    /\ parsers = [i \in ParserIds |-> NoParser]
    /\ sim = NewSimulator
    /\ hist = NoHist
    /\ snaps = NoSnaps
    /\ tt = NoTree
    /\ reqs = [r \in ReqIds |-> NoReq]

DeepNext ==
    \/ DoNewTrace
    \/ DoMakeTree
    \/ \E r \in ReqIds, tileTime \in DeepTimes, tileAddr \in DeepAddrs, d \in DeepDepths :
          Call(r, tileTime, tileAddr, d)
    \/ \E r \in ReqIds : Loop(r)
    \/ \E r \in ReqIds : Lock(r)
    \/ \E r \in ReqIds : Check(r)
    \/ \E r \in ReqIds, readFails \in BOOLEAN : Build(r, ChildFor(reqs[r], readFails))
    \/ \E r \in ReqIds : Unlock(r)

DeepSpec == DeepInit /\ [][DeepNext]_vars

-----------------------------------------------------------------------------
(* Full parses, for the properties: Next called until it returns no event. *)

RECURSIVE Drain(_, _)
DrainStep(r) == IF r.res = "event" THEN <<r.e>> \o Drain(r.tbl, r.p) ELSE <<>>

Drain(tbl, p) == DrainStep(Next(tbl, p))

DrainParser(np) == Drain(np.h[np.p.trace.blocks], np.p)

\* The events of a full parse by a fresh parser over the trace t in the heap h.
FullParse(h, t) == DrainParser(NewParser(h, t, ScratchRef))

\* The trace NewTrace returns for the byte source, and the heap holding it.
RefResult == NewTrace(stream)

RefTrace == MkTrace(TraceRef, RefResult)

RefHeap == [r \in Refs |-> IF r = TraceRef THEN RefResult.blocks ELSE <<>>]

\* The first full parse of the trace.
RefParse == FullParse(RefHeap, RefTrace)

-----------------------------------------------------------------------------
(* What the byte source holds, read off the words as the runtime wrote     *)
(* them, without the indexer and without the parser.                       *)

\* Word j is an event header, not the npages trailer of the word before it.
RECURSIVE IsHeader(_, _)
IsHeader(words, j) ==
    IF j = 1 THEN TRUE
    ELSE ~(IsHeader(words, j - 1) /\ words[j - 1].k \in {allocLarge, freeLarge, scavLarge})

\* The processor id written by the last pid word before word j; "none" before
\* the first.
RECURSIVE OwnerOf(_, _)
OwnerOf(words, j) ==
    IF j = 0 THEN "none"
    ELSE IF IsHeader(words, j) /\ words[j].k = pid THEN words[j].f
    ELSE OwnerOf(words, j - 1)

\* The memory events written in the byte source, without their times.
WrittenEvents(words) ==
    { [Kind |-> words[j].k % 4,
       P |-> OwnerOf(words, j),
       Base |-> words[j].b * pageSize,
       Size |-> pageSize * (IF words[j].k \in {alloc, free, scav} THEN words[j].f
                            ELSE IF j < Len(words) THEN WordVal(words[j + 1]) ELSE 0)] :
      j \in {x \in 1..Len(words) : IsHeader(words, x) /\ words[x].k \notin {sync, pid}} }

\* Some pid word is not immediately followed by a sync word.
PidWithoutSync(words) ==
    \E j \in 1..Len(words) :
        /\ IsHeader(words, j)
        /\ words[j].k = pid
        /\ (j = Len(words) \/ words[j + 1].k # sync)

NonDecreasing(seq) == \A n \in 1..(Len(seq) - 1) : seq[n] <= seq[n + 1]

\* The reconstructed timestamps of the events of processor i, in the order its
\* stream yields them.
RECURSIVE ProcTimes(_, _, _)
ProcTimesStep(r, i) ==
    IF r.err \/ r.e = NoEvent THEN <<>>
    ELSE <<r.clocks[i] + timestampDelta(r.e.hdr)>> \o ProcTimes(r.tbl, r.clocks, i)

ProcTimes(tbl, clocks, i) == ProcTimesStep(refreshEvent(tbl, clocks, i), i)

\* Each processor's own stream has non-decreasing reconstructed timestamps.
MonotoneStreams ==
    /\ trace.status = "ok"
    /\ \A i \in 1..Len(RefResult.blocks) :
          NonDecreasing(ProcTimes(RefResult.blocks, [x \in 1..Len(RefResult.blocks) |-> 0], i))

EventTimes(out) == [n \in 1..Len(out) |-> out[n].Time]

-----------------------------------------------------------------------------
(* Properties.                                                             *)

\* C1: when each processor's own stream has non-decreasing reconstructed
\* timestamps, the events a parser has returned so far are non-decreasing in
\* Time, for any number of processors and any order of their blocks.
C1_TimeOrdered ==
    \A i \in ParserIds :
        parsers[i].status # "none" =>
            (NonDecreasing(EventTimes(parsers[i].out)) \/ ~MonotoneStreams)

\* Witness of C1: a finished parse of two interleaved processors in which the
\* processor whose block comes second in the byte source is emitted first.
C1_Witness ==
    \E i \in ParserIds :
        /\ parsers[i].status = "eof"
        /\ MonotoneStreams
        /\ Len(parsers[i].out) >= 3
        /\ stream[1] = PidWord(0)
        /\ parsers[i].out[1].P = 1
        /\ parsers[i].out[2].P = 0
        /\ parsers[i].out[1].Time < parsers[i].out[Len(parsers[i].out)].Time

\* C2: the trace Pid(0), Sync(t), Alloc(base, n, delta 0) parses to exactly
\* the event {Allocate, P 0, time 0, base, n * 8192}, and after it is fed
\* is_allocated(base) holds, allocated(base, size) = size and
\* is_scavenged(base) does not hold; for every t, t = 0 included.
C2_SingleAllocation ==
    ( /\ Len(stream) = 3
      /\ stream[1] = PidWord(0)
      /\ stream[2].k = sync
      /\ stream[3].k = alloc /\ stream[3].d = 0 /\ stream[3].h = 0 /\ stream[3].f >= 1
      /\ parsers[PrintParser].status = "eof" )
    => LET bs == stream[3].b * pageSize
           sz == stream[3].f * pageSize
       IN  /\ parsers[PrintParser].out =
                 <<[Kind |-> EventAllocate, P |-> 0, Time |-> 0, Base |-> bs, Size |-> sz]>>
           /\ IsAllocated(sim.state, bs)
           /\ Allocated(sim.state, bs, sz) = sz
           /\ ~IsScavenged(sim.state, bs)

\* C3: every event a parser returns has kind Allocate, Free or Scavenge, a
\* page-aligned base, and is one of the memory events written in the byte
\* source: the header kind without its large bit, the header's base, the size
\* npages * 8192 with npages the header field of a small event and the trailer
\* of a large one, and the processor id of the block it was written in.
C3_EventFields ==
    \A i \in ParserIds :
        parsers[i].status # "none" =>
            \A n \in 1..Len(parsers[i].out) :
                LET e == parsers[i].out[n]
                IN  /\ e.Kind \in {EventAllocate, EventFree, EventScavenge}
                    /\ e.Base % pageSize = 0
                    /\ [Kind |-> e.Kind, P |-> e.P, Base |-> e.Base, Size |-> e.Size]
                          \in WrittenEvents(stream)

\* Witness of C3: a parser has returned a large allocation of processor 1 with
\* its size taken from the trailer, and a small event of processor 0.
C3_Witness ==
    \E i \in ParserIds :
        /\ parsers[i].status = "eof"
        /\ \E n, m \in 1..Len(parsers[i].out) :
              /\ parsers[i].out[n].Kind = EventAllocate
              /\ parsers[i].out[n].Size = 12 * pageSize
              /\ parsers[i].out[n].P = 1
              /\ parsers[i].out[m].Kind = EventScavenge
              /\ parsers[i].out[m].P = 0

\* C6: parsing never modifies the trace given to NewParser: after any
\* interleaving of Next calls on the parsers, its block lists and fields are
\* as NewTrace returned them, a fresh full parse of it and of its Clone yield
\* the events of the first full parse, and so does every parser that finished.
C6_TraceUnmodified ==
    trace.status = "ok" =>
        /\ heap[TraceRef] = RefResult.blocks
        /\ trace.t = RefTrace
        /\ FullParse(heap, trace.t) = RefParse
        /\ DrainParser(ParserOver(Clone(Clone(heap, trace.t, TmpRef(1)).h,
                                        Clone(heap, trace.t, TmpRef(1)).t,
                                        ScratchRef))) = RefParse
        /\ \A i \in ParserIds : parsers[i].status = "eof" => parsers[i].out = RefParse

\* Witness of C6: two parsers over the same trace, one finished after three
\* events, the other stopped in the middle.
C6_Witness ==
    /\ parsers[1].status = "run" /\ parsers[2].status = "eof"
    /\ Len(parsers[2].out) = 3
    /\ Len(parsers[1].out) = 1

\* C8: NewTrace fails with a malformed-trace error whenever some pid word is
\* not immediately followed by a sync word: followed by a memory event, by
\* another pid word, or by the end of the input.
C8_PidNeedsSync ==
    (trace.status # "none" /\ PidWithoutSync(stream)) => trace.status = "malformed"

\* C4: for s < e, a parser over T.Slice(s, e) that ran to the end has yielded
\* exactly the events of the full parse of T whose time t satisfies
\* s <= t <= e, in the order of the full parse.
C4_SliceEvents ==
    \A i \in ParserIds :
        ( /\ parsers[i].status = "eof"
          /\ parsers[i].src.from = "slice"
          /\ parsers[i].src.s < parsers[i].src.e )
        => parsers[i].out =
              SelectSeq(RefParse, LAMBDA ev : /\ parsers[i].src.s <= ev.Time
                                              /\ ev.Time <= parsers[i].src.e)

\* C5: a full parse of T.Slice(0, T.Duration()) yields the event sequence of a
\* full parse of T.
C5_FullSlice ==
    \A i \in ParserIds :
        ( /\ parsers[i].status = "eof"
          /\ parsers[i].src.from = "slice"
          /\ parsers[i].src.s = 0
          /\ parsers[i].src.e = Duration(trace.t) )
        => parsers[i].out = FullParse(heap, trace.t)

\* C7: a fresh parser over p.Rest(), taken after k successful Next calls on p,
\* yields exactly the events p yields from its (k+1)-th Next call onward.
C7_RestIsSuffix ==
    \A j \in ParserIds :
        ( /\ parsers[j].status = "eof"
          /\ parsers[j].src.from = "rest"
          /\ parsers[parsers[j].src.of].status = "eof" )
        => parsers[j].out =
              SubSeq(parsers[parsers[j].src.of].out, parsers[j].src.k + 1,
                     Len(parsers[parsers[j].src.of].out))

\* C9: after any sequence of page-aligned Allocate, Free and Scavenge events
\* each of which passed Validate before it was fed, no tracked page has both
\* its alloc bit and its scav bit set.
C9_AllocXorScav ==
    (sim.ok /\ hist.allValid) =>
        \A j \in 1..Len(sim.state.allocBits) : \A b \in 0..7 :
            ~(TestBit(sim.state.allocBits[j], b) /\ TestBit(sim.state.scavBits[j], b))

\* C10: Feed completes normally for every event with page-aligned base and
\* size, whatever its kind and wherever its region lies with respect to the
\* tracked range: no access past the end of a bitmap.
C10_FeedCompletes == sim.ok

\* The page addresses at which the properties probe a State: the pages of the
\* events of SimEvents and those around them.
ProbeAddrs == {q * pageSize : q \in 0..24}

\* C11: feeding an event of kind Bad leaves the bitmap unchanged: MinAddr,
\* MaxAddr and Size, and IsAllocated and IsScavenged at every address, are the
\* same after the Feed as before it.
C11_BadLeavesState ==
    [][(hist'.n = hist.n + 1 /\ hist'.last.Kind = EventBad) =>
          /\ StateMinAddr(sim'.state) = StateMinAddr(sim.state)
          /\ StateMaxAddr(sim'.state) = StateMaxAddr(sim.state)
          /\ StateSize(sim'.state) = StateSize(sim.state)
          /\ \A a \in ProbeAddrs :
                /\ IsAllocated(sim'.state, a) = IsAllocated(sim.state, a)
                /\ IsScavenged(sim'.state, a) = IsScavenged(sim.state, a)]_vars

\* The pages of the region of a page-aligned event.
PagesOf(e) == {a \in ProbeAddrs : e.Base <= a /\ a < e.Base + e.Size}

\* The conditions under which an event is to be rejected by the simulator sm.
Rejected(sm, e) ==
    \/ e.Kind = EventBad
    \/ e.Base % pageSize # 0
    \/ e.Size % pageSize # 0
    \/ e.Time < sm.clock
    \/ e.Kind = EventAllocate /\ \E a \in PagesOf(e) : IsAllocated(sm.state, a)
    \/ e.Kind = EventFree /\ \E a \in PagesOf(e) : ~IsAllocated(sm.state, a)

\* The last operation was a Validate.
Validated == "verdict" \in DOMAIN hist.last /\ hist.last.verdict # "none"

\* C12: Validate(e) returns an error exactly when e is of kind Bad, or its
\* base or size is not page-aligned, or its time is earlier than the clock, or
\* it is an Allocate and some page of its region is allocated, or it is a Free
\* and not every page of its region is allocated; otherwise it returns nil.
C12_ValidateExact ==
    Validated => ((hist.last.verdict # "nil") <=> Rejected(sim, hist.last.of))

\* Witness of C12: a Free of nine pages of which some but not all are
\* allocated is reported as a double free, after feeds that all passed
\* Validate.
C12_Witness ==
    /\ Validated
    /\ hist.last.verdict = "double free"
    /\ hist.last.of.Size = 9 * pageSize
    /\ \E a \in PagesOf(hist.last.of) : IsAllocated(sim.state, a)
    /\ hist.allValid

\* The number of bytes of [addr, addr + size) that lie on the page at a.
Overlap(a, addr, size) ==
    LET lo == IF a > addr THEN a ELSE addr
        hi == IF a + pageSize < addr + size THEN a + pageSize ELSE addr + size
    IN  IF hi > lo THEN hi - lo ELSE 0

Tracked(s, a) == StateMinAddr(s) <= a /\ a < StateMaxAddr(s)

\* The bytes of [addr, addr + size) on tracked pages from a on whose alloc
\* bit (which = "alloc") or scav bit (which = "scav") is set.
RECURSIVE BytesOn(_, _, _, _, _)
BytesOn(s, which, a, addr, size) ==
    IF a \notin ProbeAddrs THEN 0
    ELSE (IF Tracked(s, a) /\ (IF which = "alloc" THEN IsAllocated(s, a) ELSE IsScavenged(s, a))
          THEN Overlap(a, addr, size) ELSE 0)
         + BytesOn(s, which, a + pageSize, addr, size)

\* The last operation was a query of Allocated and Scavenged.
Queried == "alloc" \in DOMAIN hist.last

\* C13: Allocated(addr, size) is the number of bytes of [addr, addr + size)
\* on tracked pages whose alloc bit is set, a partially covered head or tail
\* page counting for its overlap only, so that it is at most size; Scavenged
\* likewise with the scav bits.
C13_AllocatedBytes ==
    Queried =>
        /\ hist.last.alloc = BytesOn(sim.state, "alloc", 0, hist.last.addr, hist.last.size)
        /\ hist.last.scav = BytesOn(sim.state, "scav", 0, hist.last.addr, hist.last.size)
        /\ hist.last.alloc <= hist.last.size
        /\ hist.last.scav <= hist.last.size

\* C14: a clone of a State, of the initial State too, fed the events that the
\* State itself is fed, has the same MinAddr and byte-identical alloc and scav
\* bitmaps as the State.
C14_CloneFeedsAlike ==
    (snaps.status = "clone" /\ sim.ok) =>
        /\ snaps.s.minAddr = sim.state.minAddr
        /\ snaps.s.allocBits = sim.state.allocBits
        /\ snaps.s.scavBits = sim.state.scavBits

\* The State after the events of evs at or before the instant upTo were
\* applied to the State s, in their order.
RECURSIVE StateAsOf(_, _, _)
StateAsOf(s, evs, upTo) ==
    IF evs = <<>> THEN s
    ELSE IF Head(evs).Time <= upTo
    THEN StateAsOf(update(s, Head(evs)).s, Tail(evs), upTo)
    ELSE StateAsOf(s, Tail(evs), upTo)

\* Two States track the same range with the same bits.
SameBits(a, b) ==
    /\ a.minAddr = b.minAddr
    /\ a.allocBits = b.allocBits
    /\ a.scavBits = b.scavBits

\* C15: every snaps[i], i >= 1, that takeSnapshots returns for the trace T,
\* a granule g > 0 and the starting state s0 is the state as of
\* T.TimeStart() + i * g: s0 with exactly the events of T at or before that
\* instant applied.
C15_SnapAsOf ==
    (snaps.status = "taken" /\ snaps.r.status = "ok") =>
        \A i \in 1..(Len(snaps.r.snaps) - 1) :
            /\ ~snaps.r.snaps[i + 1].isNull
            /\ SameBits(snaps.r.snaps[i + 1].s,
                        StateAsOf(EmptyState, RefParse, TimeStart(trace.t) + i * snaps.g))

-----------------------------------------------------------------------------
(* The tile tree under concurrent requests.                                *)

\* The goroutines that have entered the loop of getTile.
InTree == {r \in ReqIds : reqs[r].pc \notin {"idle", "done"} \/ "depth" \in DOMAIN reqs[r]}

\* The slots of the nodes whose child is the node m.
SlotsOf(m) ==
    {sl \in (1..Len(tt.nodes)) \X (1..magFactor) : tt.nodes[sl[1]].children[sl[2]] = m}

\* Every node other than a root is the child of exactly one slot: no
\* construction was stored twice and none was stored over another.
BuiltOnce ==
    tt.status = "ok" =>
        \A m \in (Len(tt.trees) + 1)..Len(tt.nodes) : Cardinality(SlotsOf(m)) = 1

\* A goroutine below a root is at the child that the slot it came through holds.
SameChild ==
    tt.status = "ok" =>
        \A r \in InTree :
            reqs[r].depth > 0 =>
                tt.nodes[reqs[r].from.node].children[reqs[r].from.idx + 1] = reqs[r].node

\* A slot that holds a child holds the same child after any step.
SlotsKept ==
    tt.status = "ok" =>
        \A n \in 1..Len(tt.nodes), c \in 1..magFactor :
            tt.nodes[n].children[c] # 0 =>
                /\ tt'.status = "ok"
                /\ Len(tt'.nodes) >= n
                /\ tt'.nodes[n].children[c] = tt.nodes[n].children[c]

\* C16: under any interleaving of getTile requests a child slot is
\* constructed and stored at most once: every node that was constructed is
\* held by exactly one slot, a slot that is not nil is never written again,
\* and every request that went down through a slot is at the child it holds.
C16_SlotBuiltOnce == [](BuiltOnce /\ SameChild) /\ [][SlotsKept]_vars

\* Two requests went down through the same slot, one of them having built
\* the child, and are at the same node.
C16_Witness ==
    /\ tt.status = "ok"
    /\ \E r1, r2 \in InTree :
          /\ r1 # r2
          /\ reqs[r1].depth > 0
          /\ reqs[r2].depth > 0
          /\ reqs[r1].from = reqs[r2].from
          /\ reqs[r1].node = reqs[r2].node

\* The mutexes the goroutine r holds.
Held(r) ==
    {sl \in (1..Len(tt.nodes)) \X (1..magFactor) : tt.nodes[sl[1]].childLocks[sl[2]] = r}

\* The goroutine r is between Lock and Unlock.
InSlot(r) == reqs[r].pc \in {"locked", "build", "unlock"}

SingleAllocation ==
    /\ RefResult.status = "ok"
    /\ Len(RefParse) = 1
    /\ RefParse[1].Kind = EventAllocate

\* The rows of the image whose addresses meet the range of the event e.
RowsOf(img, e) ==
    {y \in 0..(ImageHeight(img) - 1) :
        LET i == img.minAddr + ((ImageHeight(img) - 1) - y) * img.memChunk
        IN  i < e.Base + e.Size /\ e.Base < i + img.memChunk}

\* The columns of the tile of the request q whose instant is after time.
ColumnsAfter(q, time) ==
    {x \in 0..(ImageWidth(q.res.img) - 1) :
        q.s.minTime + x * ((q.s.maxTime - q.s.minTime) \div tileSize) > time}

\* C18: for a trace of a single allocation, every tile getTile returns has
\* positive occupancy in the rows of the allocated pages, in every column
\* whose instant follows the allocation.
C18_TileShowsAllocation ==
    SingleAllocation =>
        \A r \in ReqIds :
            (reqs[r].pc = "done" /\ reqs[r].res.kind = "image") =>
                \A y \in RowsOf(reqs[r].res.img, RefParse[1]) :
                    \A x \in ColumnsAfter(reqs[r], RefParse[1].Time) :
                        Occupancy(reqs[r].res.img, x, y) > 0

-----------------------------------------------------------------------------
(* The choice Next makes among the pending events.                         *)

\* The parser i as Next finds it after its initialisation: the clocks and the
\* pending events of a parser that was not yet used are those the first
\* refreshEvent of every processor leaves.
PendingOf(i) ==
    IF Len(parsers[i].p.clocks) = 0
    THEN InitFrom(heap[parsers[i].p.trace.blocks],
                  [j \in 1..Len(heap[parsers[i].p.trace.blocks]) |-> 0],
                  [j \in 1..Len(heap[parsers[i].p.trace.blocks]) |-> NoEvent], 1)
    ELSE [clocks |-> parsers[i].p.clocks, events |-> parsers[i].p.events]

\* The processors with a pending event, and the timestamp of that event.
Waiting(pd) == {j \in 1..Len(pd.events) : pd.events[j].hdr # ZeroWord}

StampOf(pd, j) == pd.clocks[j] + timestampDelta(pd.events[j].hdr)

\* The processors whose pending event has the least timestamp.
Earliest(pd) == {j \in Waiting(pd) : \A k \in Waiting(pd) : StampOf(pd, j) <= StampOf(pd, k)}

\* The lowest index of a set of processors.
Lowest(js) == CHOOSE j \in js : \A k \in js : j <= k

\* The call of Next on the parser i returned an event.
Emitted(i) ==
    /\ parsers[i].status = "run"
    /\ parsers'[i].status = "run"
    /\ Len(parsers'[i].out) = Len(parsers[i].out) + 1

\* C19: the event a call of Next returns is the pending event of the least
\* clocks[j] + delta, that of the lowest processor index among equals, and
\* the call leaves the clock and the pending event of every other processor
\* as they were.
C19_EarliestLowest ==
    [][\A i \in ParserIds :
          Emitted(i) =>
              /\ Earliest(PendingOf(i)) # {}
              /\ parsers'[i].out[Len(parsers'[i].out)] =
                    makeEvent(PendingOf(i).events[Lowest(Earliest(PendingOf(i)))],
                              pidFromIndex(Lowest(Earliest(PendingOf(i))) - 1),
                              StampOf(PendingOf(i), Lowest(Earliest(PendingOf(i)))),
                              parsers[i].p.trace.minTraceTime)
              /\ \A k \in 1..Len(PendingOf(i).events) :
                    k # Lowest(Earliest(PendingOf(i))) =>
                        /\ parsers'[i].p.events[k] = PendingOf(i).events[k]
                        /\ parsers'[i].p.clocks[k] = PendingOf(i).clocks[k]]_vars

-----------------------------------------------------------------------------
(* The bits Feed writes.                                                   *)

\* The step feeds an event of a kind that writes bits, and Feed returns.
Fed ==
    /\ hist'.n = hist.n + 1
    /\ hist'.last.Kind \in {EventAllocate, EventFree, EventScavenge}
    /\ sim'.ok

\* C20: after Feed of e every page of [e.Base, e.Base + e.Size) has alloc set
\* and scav clear if e is an Allocate; alloc clear and, if the page was
\* tracked before, the scav bit it had if e is a Free; scav set and, if the
\* page was tracked before, the alloc bit it had if e is a Scavenge.
C20_FeedBits ==
    [][Fed =>
          \A a \in PagesOf(hist'.last) :
              /\ hist'.last.Kind = EventAllocate =>
                    (IsAllocated(sim'.state, a) /\ ~IsScavenged(sim'.state, a))
              /\ hist'.last.Kind = EventFree =>
                    /\ ~IsAllocated(sim'.state, a)
                    /\ Tracked(sim.state, a) =>
                          (IsScavenged(sim'.state, a) <=> IsScavenged(sim.state, a))
              /\ hist'.last.Kind = EventScavenge =>
                    /\ IsScavenged(sim'.state, a)
                    /\ Tracked(sim.state, a) =>
                          (IsAllocated(sim'.state, a) <=> IsAllocated(sim.state, a))]_vars

-----------------------------------------------------------------------------
(* What Feed leaves alone, and the range it tracks.                        *)

\* The step feeds an event of any kind, and Feed returns.
FedAny ==
    /\ hist'.n = hist.n + 1
    /\ sim'.ok

\* C21: Feed of an event leaves every page outside [e.Base, e.Base + e.Size)
\* as it was: IsAllocated is the same after as before, and so is the scav bit
\* of a page that was tracked before.
C21_FeedFrame ==
    [][FedAny =>
          \A a \in ProbeAddrs \ PagesOf(hist'.last) :
              /\ IsAllocated(sim'.state, a) <=> IsAllocated(sim.state, a)
              /\ Tracked(sim.state, a) =>
                    (IsScavenged(sim'.state, a) <=> IsScavenged(sim.state, a))]_vars

\* C22: across a Feed on a State that tracks a range, MinAddr does not rise
\* and MaxAddr does not fall; after every Feed the two bitmaps have the same
\* length and the tracked range contains [e.Base, e.Base + e.Size).
C22_RangeGrows ==
    [][FedAny =>
          /\ ~sim.state.isNil =>
                /\ StateMinAddr(sim'.state) <= StateMinAddr(sim.state)
                /\ StateMaxAddr(sim'.state) >= StateMaxAddr(sim.state)
          /\ Len(sim'.state.allocBits) = Len(sim'.state.scavBits)
          /\ StateMinAddr(sim'.state) <= hist'.last.Base
          /\ hist'.last.Base + hist'.last.Size <= StateMaxAddr(sim'.state)]_vars

-----------------------------------------------------------------------------
(* The times NewTrace records for the intervals.                           *)

\* The time of the last sync or memory word among words[j..hi], as the
\* runtime wrote them: a sync sets the time, a memory word adds its delta to
\* the last sync, the trailer of a large event is no header.
RECURSIVE LastTime(_, _, _, _, _, _)
LastTime(words, j, hi, syncTime, curTime, trailer) ==
    IF j > hi THEN curTime
    ELSE IF trailer THEN LastTime(words, j + 1, hi, syncTime, curTime, FALSE)
    ELSE IF kind(words[j]) = sync
    THEN LastTime(words, j + 1, hi, timestamp(words[j]), timestamp(words[j]), FALSE)
    ELSE IF kind(words[j]) = pid
    THEN LastTime(words, j + 1, hi, syncTime, curTime, FALSE)
    ELSE LastTime(words, j + 1, hi, syncTime, syncTime + timestampDelta(words[j]),
                  large(words[j]))

\* The time of the last word of the interval iv of the byte source.
IntervalLast(iv) == LastTime(stream, iv.start \div 8 + 1, iv.end \div 8, 0, 0, FALSE)

\* C23: every interval of the index NewTrace built has endTime equal to the
\* time of the last sync or memory word in it, and startTime <= endTime.
C23_IntervalTimes ==
    trace.status = "ok" =>
        \A i \in 1..Len(heap[TraceRef]) :
            \A n \in 1..Len(heap[TraceRef][i]) :
                /\ heap[TraceRef][i][n].endTime = IntervalLast(heap[TraceRef][i][n])
                /\ heap[TraceRef][i][n].startTime <= heap[TraceRef][i][n].endTime

-----------------------------------------------------------------------------
(* The copy of the index a parser works on.                                *)

\* The trace a has the index fields of the trace b, and block lists with
\* the same contents.
SameIndex(a, b) ==
    /\ a.minTraceTime = b.minTraceTime
    /\ a.startTime = b.startTime
    /\ a.endTime = b.endTime
    /\ a.minAddr = b.minAddr
    /\ a.maxAddr = b.maxAddr
    /\ heap[a.blocks] = heap[b.blocks]

\* C24: the clone NewParser takes of the trace has, before the parser read
\* anything, every index field of the original: the three times, minAddr,
\* maxAddr and the contents of the block lists.
C24_CloneEqual ==
    \A i \in ParserIds :
        (/\ parsers[i].status = "run"
         /\ parsers[i].src.from = "trace"
         /\ Len(parsers[i].p.clocks) = 0)
        => SameIndex(parsers[i].p.trace, trace.t)

-----------------------------------------------------------------------------
(* The time of a memory event.                                             *)

\* C25: the delta of a memory event's header is given by the delta field of
\* the word (bits 48..63) alone: two headers with the same delta field have
\* the same timestampDelta, whatever their base addresses, and it is the
\* field's value in units of 128 ns.
C25_DeltaField ==
    hist.n = 1 =>
        /\ stream[1].d = stream[2].d => hist.last.delta[1] = hist.last.delta[2]
        /\ \A j \in 1..Len(stream) : hist.last.delta[j] = timeLostUnit * stream[j].d

-----------------------------------------------------------------------------
(* Padding inside a processor's block.                                     *)

\* A zero word lies between the pid word that opens the block of word j and
\* word j.
RECURSIVE ZeroBefore(_, _)
ZeroBefore(words, j) ==
    IF j <= 1 THEN FALSE
    ELSE IF ~IsHeader(words, j - 1) THEN ZeroBefore(words, j - 1)
    ELSE IF words[j - 1] = ZeroWord THEN TRUE
    ELSE IF words[j - 1].k = pid THEN FALSE
    ELSE ZeroBefore(words, j - 1)

\* The memory events written in blocks, or parts of blocks, that no zero word
\* has ended.
UnendedEvents(words) ==
    { [Kind |-> words[j].k % 4,
       P |-> OwnerOf(words, j),
       Base |-> words[j].b * pageSize,
       Size |-> pageSize * (IF words[j].k \in {alloc, free, scav} THEN words[j].f
                            ELSE IF j < Len(words) THEN WordVal(words[j + 1]) ELSE 0)] :
      j \in {x \in 1..Len(words) : /\ IsHeader(words, x)
                                   /\ words[x].k \notin {sync, pid}
                                   /\ words[x] # ZeroWord
                                   /\ ~ZeroBefore(words, x)} }

\* C26: a zero word ends only the block it is in: a parser over the whole
\* trace that has reached the end has returned every memory event of the
\* blocks, and parts of blocks, that no zero word has ended.
C26_ZeroEndsBlock ==
    \A i \in ParserIds :
        (parsers[i].status = "eof" /\ parsers[i].src.from = "trace")
        => \A w \in UnendedEvents(stream) :
               \E n \in 1..Len(parsers[i].out) :
                   /\ parsers[i].out[n].Kind = w.Kind
                   /\ parsers[i].out[n].P = w.P
                   /\ parsers[i].out[n].Base = w.Base
                   /\ parsers[i].out[n].Size = w.Size

-----------------------------------------------------------------------------
(* The snapshots a node of the tile tree stores.                           *)

\* C27: every node of the tile tree, a root or a child built by getTile,
\* stores a snapshot in each of the columns 1..tileSize-1, and in the column
\* 0 as well unless it is the first root.
C27_NodeSnapshots ==
    tt.status = "ok" =>
        \A n \in 1..Len(tt.nodes) :
            /\ \A x \in 1..(tileSize - 1) : ~tt.nodes[n].snaps[x + 1].isNull
            /\ n # tt.trees[1] => ~tt.nodes[n].snaps[1].isNull

-----------------------------------------------------------------------------
(* The construction of the tile tree comes to an end.                      *)

\* C28: for every trace NewTrace accepted, makeTraceTree returns, and every
\* construction of a child that getTile starts returns: no call of
\* takeSnapshots they make stays in one of its loops for ever.
C28_Terminates ==
    /\ tt.status # "hang"
    /\ \A r \in ReqIds : reqs[r].pc # "hang"

-----------------------------------------------------------------------------
(* The indexes getTile computes on its way down.                           *)

\* C29: at every level of the descent of a request inside the span of the
\* tree the child index is in [0, magFactor) and the index of the seed
\* snapshot in [0, tileSize), also below a node built from an empty slice.
C29_IndexesInRange ==
    \A r \in ReqIds :
        reqs[r].pc \in {"loop", "lock", "locked", "build", "unlock", "panic", "hang"}
        => /\ reqs[r].childIdx \in 0..(magFactor - 1)
           /\ reqs[r].childSnapIdx \in 0..(tileSize - 1)

=============================================================================
